---- MODULE Spec2Model ----
(***************************************************************************)
(* Model of the tool dispatcher of metasearch-mcp (src/src/server.py):     *)
(* call_tool, handle_tavily_search, handle_searxng_image_search, the two   *)
(* result normalizers and the SearXNG adapter.                             *)
(*                                                                         *)
(* Python values are tagged records: [t |-> "None"], [t |-> "str", s],     *)
(* [t |-> "int", n], [t |-> "list", l], [t |-> "dict", d] with d a         *)
(* function from the keys present to their values.                         *)
(*                                                                         *)
(* A text (a Python str the handlers build) is a sequence of string        *)
(* pieces standing for their concatenation.  An exception message is a     *)
(* sequence of fragments; lower() and the substring test `in` work on      *)
(* whole fragments through the tables Lower and Needles.                   *)
(***************************************************************************)
EXTENDS Integers, Sequences, FiniteSets, TLC

VARIABLES pc, name, arguments, sent, calls, elapsed, outcome, response

vars == <<pc, name, arguments, sent, calls, elapsed, outcome, response>>

(***************************************************************************)
(* Bounds of the model.                                                    *)
(***************************************************************************)
MaxResults == 2
MaxItems == 3
MaxMsgLen == 2
LimitSlack == 2

(***************************************************************************)
(* Program constants.                                                      *)
(***************************************************************************)
DEFAULT_LIMIT == 5
MIN_LIMIT == 1
MAX_LIMIT == 20
TIMEOUT == 30
HTTP_OK == 200
TAVILY_MAX_RESULTS == 3

(***************************************************************************)
(* Python values.                                                          *)
(***************************************************************************)
PyNone == [t |-> "None"]
PyStr(s) == [t |-> "str", s |-> s]
PyInt(n) == [t |-> "int", n |-> n]
PyList(l) == [t |-> "list", l |-> l]
PyDict(d) == [t |-> "dict", d |-> d]
\* a str kept as the pieces it was built from
PyText(p) == [t |-> "text", p |-> p]

\* bool(v)
Truthy(v) ==
    CASE v.t = "None" -> FALSE
      [] v.t = "str" -> v.s # ""
      [] v.t = "int" -> v.n # 0
      [] v.t = "list" -> v.l # <<>>
      [] v.t = "dict" -> DOMAIN v.d # {}
      [] v.t = "text" -> v.p # <<>>

\* isinstance(v, dict)
IsDict(v) == v.t = "dict"

\* key in v, for a dict v
HasKey(v, k) == k \in DOMAIN v.d

\* v.get(k, default), for a dict v
Get(v, k, default) == IF k \in DOMAIN v.d THEN v.d[k] ELSE default

\* str(v) as an f-string interpolates it
Fmt(v) ==
    CASE v.t = "None" -> "None"
      [] v.t = "str" -> v.s
      [] v.t = "int" -> ToString(v.n)
      [] v.t = "list" -> "[...]"
      [] v.t = "dict" -> "{...}"

\* The dicts whose keys are a subset of K, key k carrying a value of V[k].
DictsOver(K, V) ==
    UNION { { PyDict(f) : f \in { g \in [S -> UNION { V[k] : k \in S }] :
                                  \A k \in S : g[k] \in V[k] } } :
            S \in SUBSET K }

\* The sequences over S of length at most n.
SeqsUpTo(S, n) == UNION { [1..k -> S] : k \in 0..n }

(***************************************************************************)
(* Outcomes of a computation: a value returned or an exception raised.     *)
(***************************************************************************)
Ok(v) == [ok |-> TRUE, val |-> v]
Raise(type, msg) == [ok |-> FALSE, type |-> type, msg |-> msg]

(***************************************************************************)
(* Content blocks.                                                         *)
(***************************************************************************)
TextContent(text) == [type |-> "text", text |-> text]
ImageContent(url, title) == [type |-> "image", url |-> url, title |-> title]

\* sep.join(lines): the lines with sep between each two of them
Join(sep, lines) ==
    LET F[k \in 0..Len(lines)] ==
            IF k = 0 THEN <<>>
            ELSE IF k = 1 THEN <<lines[1]>>
            ELSE F[k - 1] \o <<sep, lines[k]>>
    IN F[Len(lines)]

(***************************************************************************)
(* Exception messages: sequences of fragments.                             *)
(***************************************************************************)
Fragments ==
    { "Invalid API_KEY", "Rate Limit exceeded", "rate limit",
      "Connection refused", "Unauthorized", "boom" }

Messages == SeqsUpTo(Fragments, MaxMsgLen)

\* s.lower(), fragment by fragment
Lower(s) ==
    CASE s = "Invalid API_KEY" -> "invalid api_key"
      [] s = "Rate Limit exceeded" -> "rate limit exceeded"
      [] s = "Connection refused" -> "connection refused"
      [] s = "Unauthorized" -> "unauthorized"
      [] OTHER -> s

LowerMsg(msg) == [i \in DOMAIN msg |-> Lower(msg[i])]

\* The substrings the classifiers look for that occur in fragment s (case-sensitively).
Needles(s) ==
    CASE s = "invalid api_key" -> {"api_key"}
      [] s = "rate limit exceeded" -> {"rate limit"}
      [] s = "rate limit" -> {"rate limit"}
      [] s = "connection refused" -> {"connection"}
      [] s = "unauthorized" -> {"auth"}
      [] s = "Unauthorized" -> {"auth"}
      [] OTHER -> {}

\* needle in msg
Contains(msg, needle) == \E i \in DOMAIN msg : needle \in Needles(msg[i])

(***************************************************************************)
(* The fixed user-facing texts.                                            *)
(***************************************************************************)
NO_RESULTS_TEXT ==
    <<"No results were found for your query. Please try a different search term.">>
NO_RELEVANT_TEXT ==
    <<"The search was completed but no relevant information was found. Please try refining your query.">>
NO_IMAGES_TEXT ==
    <<"No image results were found for your query. Please try a different search term.">>
TIMEOUT_TEXT ==
    <<"The search operation timed out. Please try again with a more specific query or check your internet connection.">>
AUTH_TEXT ==
    <<"Authentication error occurred. Please check the API key configuration.">>
RATE_LIMIT_TEXT ==
    <<"Rate limit exceeded. Please wait a moment before trying again.">>
UNEXPECTED_PREFIX ==
    "An unexpected error occurred during the search. Please try again later. Error: "
IMAGE_UNEXPECTED_PREFIX ==
    "An unexpected error occurred during image search. Please try again later. Error: "
IMAGE_ERROR_PREFIX == "Error in image search: "
INVALID_ARGS_TEXT ==
    <<"Error: Invalid arguments. A 'query' parameter is required.">>
IMAGE_INVALID_ARGS_TEXT ==
    <<"Error: Invalid arguments. A 'query' parameter is required for image search.">>
UnknownToolText(n) ==
    <<"Error: Unknown tool '", n, "'. Supported tools are 'search' and 'image_search'.">>

(***************************************************************************)
(* process_search_results                                                  *)
(***************************************************************************)
ATTRIBUTE_ERROR_MSG == <<"'str' object has no attribute 'get'">>
JOIN_TYPE_ERROR_MSG == <<"sequence item 1: expected str instance, int found">>

ResultLines_ZeroBased(i, result) ==
    << PyStr("\n" \o ToString(i - 1) \o ". " \o Fmt(Get(result, "title", PyStr("Title not found")))),
       PyStr("URL: " \o Fmt(Get(result, "url", PyStr("URL not found")))),
       PyStr("Summary: " \o Fmt(Get(result, "snippet", PyStr("Summary not found"))) \o "\n") >>

\* The three lines appended for the i-th entry of results['results'].
ResultLines(i, result) ==
    << PyStr("\n" \o ToString(i) \o ". " \o Fmt(Get(result, "title", PyStr("Title not found")))),
       PyStr("URL: " \o Fmt(Get(result, "url", PyStr("URL not found")))),
       PyStr("Summary: " \o Fmt(Get(result, "snippet", PyStr("Summary not found"))) \o "\n") >>

\* for i, result in enumerate(results['results'], 1): ...
SearchResultLines(entries) ==
    LET F[k \in 0..Len(entries)] ==
            IF k = 0 THEN <<>> ELSE F[k - 1] \o ResultLines(k, entries[k])
    IN F[Len(entries)]

AnswerLines(results) ==
    IF HasKey(results, "answer") /\ Truthy(results.d["answer"])
    THEN <<PyStr("AI Answer:"), results.d["answer"], PyStr("\n")>>
    ELSE <<>>

IsEmptyResults_NoneOnly(results) == results.t = "None"

\* if not results
IsEmptyResults(results) == ~Truthy(results)

process_search_results(results) ==
    IF IsEmptyResults(results)
    THEN Ok(TextContent(NO_RESULTS_TEXT))
    ELSE
      LET hasResults == HasKey(results, "results") /\ Truthy(results.d["results"])
          entries == IF hasResults THEN results.d["results"].l ELSE <<>>
      IN IF \E k \in DOMAIN entries : ~IsDict(entries[k])
         THEN Raise("AttributeError", ATTRIBUTE_ERROR_MSG)
         ELSE
           LET response_text ==
                   AnswerLines(results)
                   \o (IF hasResults
                       THEN <<PyStr("\nSearch Results:")>> \o SearchResultLines(entries)
                       ELSE <<>>)
           IN IF response_text # <<>>
              THEN IF \E k \in DOMAIN response_text : response_text[k].t # "str"
                   THEN Raise("TypeError", JOIN_TYPE_ERROR_MSG)
                   ELSE Ok(TextContent(Join("\n",
                            [k \in DOMAIN response_text |-> response_text[k].s])))
              ELSE Ok(TextContent(NO_RELEVANT_TEXT))

(***************************************************************************)
(* perform_searxng_image_search: what the adapter makes of the outcome of  *)
(* its HTTP GET.                                                           *)
(***************************************************************************)
Min(a, b) == IF a < b THEN a ELSE b
Max(a, b) == IF a > b THEN a ELSE b

\* l[:n]
Slice(l, n) ==
    IF n >= 0 THEN SubSeq(l, 1, Min(n, Len(l)))
    ELSE SubSeq(l, 1, Max(Len(l) + n, 0))

\* The record the adapter extracts from one item of data["results"].
ExtractItem(item) ==
    PyDict([title |-> Get(item, "title", PyStr("No title")),
            url |-> Get(item, "url", PyStr("")),
            img_src |-> Get(item, "img_src", PyStr("")),
            source |-> Get(item, "source", PyStr("Unknown source")),
            thumbnail |-> Get(item, "thumbnail", PyStr("")),
            height |-> Get(item, "img_height", PyInt(0)),
            width |-> Get(item, "img_width", PyInt(0))])

ErrorDict(pieces) == PyDict([error |-> PyText(pieces)])

\* The body of the `async with session.get(...)` block.
ExtractResults(query, limit, status, data) ==
    IF status # HTTP_OK
    THEN Ok(ErrorDict(<<"SearXNG API returned status code ", ToString(status)>>))
    ELSE
      LET items == IF HasKey(data, "results")
                   THEN Slice(data.d["results"].l, limit) ELSE <<>>
      IN IF \E k \in DOMAIN items : ~IsDict(items[k])
         THEN Raise("AttributeError", ATTRIBUTE_ERROR_MSG)
         ELSE Ok(PyDict([query |-> query,
                         results |-> PyList([k \in DOMAIN items |-> ExtractItem(items[k])])]))

perform_searxng_image_search(query, limit, out) ==
    LET body ==
            CASE out.kind = "response" -> ExtractResults(query, limit, out.status, out.data)
              [] out.kind = "client_error" -> Raise("ClientError", out.msg)
              [] out.kind = "timeout" -> Raise("TimeoutError", <<>>)
              [] out.kind = "exception" -> Raise("Exception", out.msg)
    IN IF body.ok THEN body.val
       ELSE IF body.type = "ClientError" THEN ErrorDict(<<"Connection error: ">> \o body.msg)
       ELSE IF body.type = "TimeoutError" THEN ErrorDict(<<"Request timed out">>)
       ELSE ErrorDict(<<"Error during search: ">> \o body.msg)

(***************************************************************************)
(* process_image_search_results                                            *)
(***************************************************************************)
\* The pieces of the summary for the idx-th image.
SummaryLines(idx, img) ==
    << ToString(idx) \o ". " \o Fmt(img.d["title"]) \o "\n",
       "   Source: " \o Fmt(img.d["source"]) \o "\n",
       "   URL: " \o Fmt(img.d["url"]) \o "\n" >>
    \o (IF Truthy(img.d["height"]) /\ Truthy(img.d["width"])
        THEN <<"   Size: " \o Fmt(img.d["width"]) \o "x" \o Fmt(img.d["height"]) \o "\n">>
        ELSE <<>>)
    \o <<"\n">>

SummaryText(results) ==
    LET imgs == results.d["results"].l
        F[k \in 0..Len(imgs)] ==
            IF k = 0
            THEN <<"Found " \o ToString(Len(imgs)) \o " images matching '"
                    \o Fmt(results.d["query"]) \o "':\n\n">>
            ELSE F[k - 1] \o SummaryLines(k, imgs[k])
    IN F[Len(imgs)]

ImageBlocks_Unfiltered(imgs) ==
    [k \in DOMAIN imgs |-> ImageContent(Fmt(imgs[k].d["img_src"]), Fmt(imgs[k].d["title"]))]

\* for img in results['results']: if img.get('img_src'): contents.append(ImageContent(...))
ImageBlocks(imgs) ==
    LET F[k \in 0..Len(imgs)] ==
            IF k = 0 THEN <<>>
            ELSE IF Truthy(Get(imgs[k], "img_src", PyNone))
                 THEN Append(F[k - 1],
                             ImageContent(Fmt(imgs[k].d["img_src"]), Fmt(imgs[k].d["title"])))
                 ELSE F[k - 1]
    IN F[Len(imgs)]

process_image_search_results(results) ==
    IF HasKey(results, "error")
    THEN <<TextContent(<<IMAGE_ERROR_PREFIX>> \o results.d["error"].p)>>
    ELSE IF ~Truthy(Get(results, "results", PyNone))
    THEN <<TextContent(NO_IMAGES_TEXT)>>
    ELSE <<TextContent(SummaryText(results))>> \o ImageBlocks(results.d["results"].l)

(***************************************************************************)
(* What a handler hands back to its caller.                                *)
(***************************************************************************)
Returned(content) == [raised |-> FALSE, content |-> content]
Propagated(e) == [raised |-> TRUE, content |-> <<>>, type |-> e.type, msg |-> e.msg]
NoResponse == [raised |-> FALSE, content |-> <<>>]

(***************************************************************************)
(* handle_tavily_search                                                    *)
(***************************************************************************)
TavilyArgsValid(args) == IsDict(args) /\ HasKey(args, "query")

\* The keyword arguments of client.search(...).
TavilyRequest(args) ==
    [backend |-> "tavily",
     query |-> args.d["query"],
     search_depth |-> Get(args, "search_depth", PyStr("basic")),
     include_images |-> FALSE,
     include_answer |-> TRUE,
     max_results |-> TAVILY_MAX_RESULTS,
     topic |-> "general"]

TavilyTry_TimeoutUncaught(out) ==
    CASE out.kind = "timeout" -> Raise("TimeoutError", <<>>)
      [] out.kind = "exception" -> Raise("Exception", out.msg)
      [] out.kind = "result" ->
            LET r == process_search_results(out.results)
            IN IF r.ok THEN Ok(<<r.val>>) ELSE r

\* The inner try block: await wait_for(...), process_search_results, and
\* `except asyncio.TimeoutError`.
TavilyTry(out) ==
    CASE out.kind = "timeout" -> Ok(<<TextContent(TIMEOUT_TEXT)>>)
      [] out.kind = "exception" -> Raise("Exception", out.msg)
      [] out.kind = "result" ->
            LET r == process_search_results(out.results)
            IN IF r.ok THEN Ok(<<r.val>>) ELSE r

TavilyErrorContent_CaseSensitive(error_message) ==
    IF Contains(error_message, "api_key")
    THEN <<TextContent(AUTH_TEXT)>>
    ELSE IF Contains(error_message, "rate limit")
    THEN <<TextContent(RATE_LIMIT_TEXT)>>
    ELSE <<TextContent(<<UNEXPECTED_PREFIX>> \o error_message)>>

TavilyErrorContent_RateLimitFirst(error_message) ==
    IF Contains(LowerMsg(error_message), "rate limit")
    THEN <<TextContent(RATE_LIMIT_TEXT)>>
    ELSE IF Contains(LowerMsg(error_message), "api_key")
    THEN <<TextContent(AUTH_TEXT)>>
    ELSE <<TextContent(<<UNEXPECTED_PREFIX>> \o error_message)>>

\* The body of `except Exception as e`.
TavilyErrorContent(error_message) ==
    IF Contains(LowerMsg(error_message), "api_key")
    THEN <<TextContent(AUTH_TEXT)>>
    ELSE IF Contains(LowerMsg(error_message), "rate limit")
    THEN <<TextContent(RATE_LIMIT_TEXT)>>
    ELSE <<TextContent(<<UNEXPECTED_PREFIX>> \o error_message)>>

TavilyCatch_Narrow(e) ==
    IF e.type = "Exception" /\ Contains(LowerMsg(e.msg), "api_key")
    THEN Returned(<<TextContent(AUTH_TEXT)>>)
    ELSE Propagated(e)

\* `except Exception as e` of handle_tavily_search.
TavilyCatch(e) == Returned(TavilyErrorContent(e.msg))

TavilyFinish(out) ==
    LET t == TavilyTry(out)
    IN IF t.ok THEN Returned(t.val) ELSE TavilyCatch(t)

(***************************************************************************)
(* handle_searxng_image_search                                             *)
(***************************************************************************)
ImageArgsValid(args) == IsDict(args) /\ HasKey(args, "query")

\* int(s) for the strings the model supplies
ParseInt(s) ==
    CASE s = "7" -> Ok(7)
      [] OTHER -> Raise("ValueError",
                        <<"invalid literal for int() with base 10: '", s, "'">>)

\* int(v)
IntOf(v) ==
    CASE v.t = "int" -> Ok(v.n)
      [] v.t = "str" -> ParseInt(v.s)
      [] OTHER -> Raise("TypeError",
                        <<"int() argument must be a string, a bytes-like object or a real number">>)

ClampLimit_UpperOnly(limit) ==
    IF limit > MAX_LIMIT THEN MAX_LIMIT ELSE limit

\* if limit < 1: limit = 1 elif limit > 20: limit = 20
ClampLimit(limit) ==
    IF limit < MIN_LIMIT THEN MIN_LIMIT
    ELSE IF limit > MAX_LIMIT THEN MAX_LIMIT
    ELSE limit

\* limit = int(arguments.get("limit", 5)) and the clamp
EffectiveLimit(args) ==
    LET limit == IntOf(Get(args, "limit", PyInt(DEFAULT_LIMIT)))
    IN IF limit.ok THEN Ok(ClampLimit(limit.val)) ELSE limit

\* The arguments of perform_searxng_image_search and the query string of its GET.
SearxngRequest(query, limit) ==
    [backend |-> "searxng",
     query |-> query,
     limit |-> limit,
     params |-> [q |-> query, format |-> "json", categories |-> "images",
                 language |-> "en", pageno |-> 1, time_range |-> "",
                 safesearch |-> 1, theme |-> "simple"],
     timeout |-> TIMEOUT]

NoRequest == [backend |-> "none"]

\* `except Exception as e` of handle_searxng_image_search.
ImageCatch(e) == Returned(<<TextContent(<<IMAGE_UNEXPECTED_PREFIX>> \o e.msg)>>)

ImageFinish(query, limit, out) ==
    Returned(process_image_search_results(perform_searxng_image_search(query, limit, out)))

(***************************************************************************)
(* The inputs: tool names, arguments, and what the backends may answer.    *)
(***************************************************************************)
ToolNames == {"search", "image_search", "Search", "web_fetch"}

LimitInts == (MIN_LIMIT - LimitSlack)..(MAX_LIMIT + LimitSlack)

ArgValues ==
    [query |-> {PyStr("cats"), PyStr(""), PyInt(42)},
     search_depth |-> {PyStr("advanced")},
     limit |-> {PyInt(n) : n \in LimitInts} \cup {PyStr("7"), PyStr("abc")}]

ArgumentsSet ==
    {PyNone, PyStr("cats")}
    \cup DictsOver({"query", "search_depth"}, ArgValues)
    \cup DictsOver({"query", "limit"}, ArgValues)

\* Entries of the text backend's `results`.
TextEntries ==
    { PyDict([title |-> PyStr("T"), url |-> PyStr("U"), snippet |-> PyStr("S")]),
      PyDict([title |-> PyStr("T2"), url |-> PyStr("U2"), content |-> PyStr("C2")]),
      PyDict(<<>>),
      PyStr("junk") }

TextResults ==
    {PyNone}
    \cup DictsOver({"answer", "results"},
                   [answer |-> {PyStr(""), PyStr("42"), PyInt(7)},
                    results |-> {PyList(l) : l \in SeqsUpTo(TextEntries, MaxResults)}])

\* Items of the image backend's `results`.
ItemA ==
    PyDict([title |-> PyStr("Cat"), url |-> PyStr("http://a/page"),
            img_src |-> PyStr("http://a/cat.png"), source |-> PyStr("bing"),
            thumbnail |-> PyStr("http://a/t.png"),
            img_height |-> PyInt(600), img_width |-> PyInt(800)])
ItemB ==
    PyDict([title |-> PyStr("Dog"), url |-> PyStr("http://b/page"),
            img_width |-> PyInt(640)])
ItemC == PyDict([img_src |-> PyStr("http://c/emu.png")])
ImageItems == {ItemA, ItemB, ItemC, PyStr("junk")}

\* A result list longer than the largest limit.
LongItems == [k \in 1..(MAX_LIMIT + LimitSlack) |-> IF k % 3 = 0 THEN ItemB ELSE
                                                    IF k % 3 = 1 THEN ItemA ELSE ItemC]

ImageData ==
    {PyDict(<<>>), PyDict([results |-> PyList(LongItems)])}
    \cup {PyDict([results |-> PyList(l)]) : l \in SeqsUpTo(ImageItems, MaxItems)}

StatusCodes == {HTTP_OK, HTTP_OK + 229, HTTP_OK + 300}

NoOutcome == [kind |-> "none"]

(***************************************************************************)
(* The state machine of one server handling tool calls one after another.  *)
(***************************************************************************)
Init ==
    /\ pc = "idle"
    /\ name = ""
    /\ arguments = PyNone
    /\ sent = NoRequest
    /\ calls = [tavily |-> 0, searxng |-> 0]
    /\ elapsed = 0
    /\ outcome = NoOutcome
    /\ response = NoResponse

\* handle_tavily_search up to its await.
HandleTavilyStart(args) ==
    IF ~TavilyArgsValid(args)
    THEN /\ response' = Returned(<<TextContent(INVALID_ARGS_TEXT)>>)
         /\ sent' = NoRequest
         /\ calls' = [tavily |-> 0, searxng |-> 0]
         /\ pc' = "done"
    ELSE /\ response' = NoResponse
         /\ sent' = TavilyRequest(args)
         /\ calls' = [tavily |-> 1, searxng |-> 0]
         /\ pc' = "awaiting_tavily"

\* handle_searxng_image_search up to the await inside the adapter.
HandleImageStart(args) ==
    IF ~ImageArgsValid(args)
    THEN /\ response' = Returned(<<TextContent(IMAGE_INVALID_ARGS_TEXT)>>)
         /\ sent' = NoRequest
         /\ calls' = [tavily |-> 0, searxng |-> 0]
         /\ pc' = "done"
    ELSE LET limit == EffectiveLimit(args)
         IN IF ~limit.ok
            THEN /\ response' = ImageCatch(limit)
                 /\ sent' = NoRequest
                 /\ calls' = [tavily |-> 0, searxng |-> 0]
                 /\ pc' = "done"
            ELSE /\ response' = NoResponse
                 /\ sent' = SearxngRequest(args.d["query"], limit.val)
                 /\ calls' = [tavily |-> 0, searxng |-> 1]
                 /\ pc' = "awaiting_searxng"

Route_IgnoringCase(n) ==
    IF n \in {"search", "Search"} THEN "handle_tavily_search"
    ELSE IF n = "image_search" THEN "handle_searxng_image_search"
    ELSE "unknown"

\* The branch call_tool takes for a tool name.
Route(n) ==
    IF n = "search" THEN "handle_tavily_search"
    ELSE IF n = "image_search" THEN "handle_searxng_image_search"
    ELSE "unknown"

\* call_tool(name, arguments), up to the first await on a backend.
CallTool ==
    /\ pc = "idle"
    /\ \E n \in ToolNames, a \in ArgumentsSet :
        /\ name' = n
        /\ arguments' = a
        /\ IF Route(n) = "handle_tavily_search" THEN HandleTavilyStart(a)
           ELSE IF Route(n) = "handle_searxng_image_search" THEN HandleImageStart(a)
           ELSE /\ response' = Returned(<<TextContent(UnknownToolText(n))>>)
                /\ sent' = NoRequest
                /\ calls' = [tavily |-> 0, searxng |-> 0]
                /\ pc' = "done"
    /\ elapsed' = 0
    /\ outcome' = NoOutcome

\* One second passes while a backend call is pending.
Tick ==
    /\ pc \in {"awaiting_tavily", "awaiting_searxng"}
    /\ elapsed < TIMEOUT
    /\ elapsed' = elapsed + 1
    /\ UNCHANGED <<pc, name, arguments, sent, calls, outcome, response>>

TavilyCompletes_RetryOnce(out) ==
    IF out.kind # "result" /\ calls.tavily = 1
    THEN /\ calls' = [calls EXCEPT !.tavily = 2]
         /\ elapsed' = 0
         /\ UNCHANGED <<pc, name, arguments, sent, outcome, response>>
    ELSE /\ outcome' = out
         /\ response' = TavilyFinish(out)
         /\ pc' = "done"
         /\ elapsed' = 0
         /\ UNCHANGED <<name, arguments, sent, calls>>

\* The rest of handle_tavily_search, once the awaited search has an outcome.
TavilyCompletes(out) ==
    /\ outcome' = out
    /\ response' = TavilyFinish(out)
    /\ pc' = "done"
    /\ elapsed' = 0
    /\ UNCHANGED <<name, arguments, sent, calls>>

TavilyReturns ==
    /\ pc = "awaiting_tavily"
    /\ elapsed < TIMEOUT
    /\ \E r \in TextResults : TavilyCompletes([kind |-> "result", results |-> r])

TavilyRaises ==
    /\ pc = "awaiting_tavily"
    /\ elapsed < TIMEOUT
    /\ \E m \in Messages : TavilyCompletes([kind |-> "exception", msg |-> m])

\* asyncio.wait_for(search_task, timeout=30.0) expires.
TavilyTimesOut ==
    /\ pc = "awaiting_tavily"
    /\ elapsed = TIMEOUT
    /\ TavilyCompletes([kind |-> "timeout", after |-> elapsed])

\* The rest of handle_searxng_image_search, once the GET has an outcome.
SearxngCompletes(out) ==
    /\ outcome' = out
    /\ response' = ImageFinish(sent.query, sent.limit, out)
    /\ pc' = "done"
    /\ elapsed' = 0
    /\ UNCHANGED <<name, arguments, sent, calls>>

SearxngResponds ==
    /\ pc = "awaiting_searxng"
    /\ elapsed < TIMEOUT
    /\ \E st \in StatusCodes :
         \E d \in (IF st = HTTP_OK THEN ImageData ELSE {PyNone}) :
            SearxngCompletes([kind |-> "response", status |-> st, data |-> d])

SearxngClientError ==
    /\ pc = "awaiting_searxng"
    /\ elapsed < TIMEOUT
    /\ \E m \in Messages : SearxngCompletes([kind |-> "client_error", msg |-> m])

SearxngRaises ==
    /\ pc = "awaiting_searxng"
    /\ elapsed < TIMEOUT
    /\ \E m \in Messages : SearxngCompletes([kind |-> "exception", msg |-> m])

\* session.get(..., timeout=30) expires.
SearxngTimesOut ==
    /\ pc = "awaiting_searxng"
    /\ elapsed = TIMEOUT
    /\ SearxngCompletes([kind |-> "timeout", after |-> elapsed])

\* call_tool has returned: the invocation's locals are discarded and the server
\* waits for the next request.
Return ==
    /\ pc = "done"
    /\ pc' = "idle"
    /\ name' = ""
    /\ arguments' = PyNone
    /\ sent' = NoRequest
    /\ calls' = [tavily |-> 0, searxng |-> 0]
    /\ elapsed' = 0
    /\ outcome' = NoOutcome
    /\ response' = NoResponse

Next ==
    \/ CallTool
    \/ Return
    \/ Tick
    \/ TavilyReturns
    \/ TavilyRaises
    \/ TavilyTimesOut
    \/ SearxngResponds
    \/ SearxngClientError
    \/ SearxngRaises
    \/ SearxngTimesOut

Spec == Init /\ [][Next]_vars

(***************************************************************************)
(* Properties.                                                             *)
(***************************************************************************)
SupportedTools == {"search", "image_search"}
NoBackendCall == calls.tavily = 0 /\ calls.searxng = 0 /\ sent = NoRequest
OneTextBlock(r) == ~r.raised /\ Len(r.content) = 1 /\ r.content[1].type = "text"

\* C1: for every tool name other than "search" and "image_search", whatever the
\* arguments, call_tool returns exactly one TextBlock, the unsupported-tool error,
\* and issues no backend call during the invocation.
C1_UnknownToolRejected ==
    (pc # "idle" /\ name \notin SupportedTools) =>
        /\ pc = "done"
        /\ OneTextBlock(response)
        /\ response.content[1].text =
             <<"Error: Unknown tool '", name, "'. Supported tools are 'search' and 'image_search'.">>
        /\ NoBackendCall

C1_Witness ==
    /\ pc = "done"
    /\ name = "Search"
    /\ IsDict(arguments) /\ HasKey(arguments, "query")
    /\ arguments.d["query"] = PyStr("cats")
    /\ OneTextBlock(response)

\* What the specification calls valid arguments: a mapping with a non-empty
\* `query` string.
QueryIsNonEmptyString(args) ==
    /\ IsDict(args)
    /\ HasKey(args, "query")
    /\ args.d["query"].t = "str"
    /\ args.d["query"].s # ""

\* C2: for both tools, whenever the arguments are not a mapping, lack `query`, or
\* carry a `query` that is not a non-empty string, the dispatcher returns exactly
\* one InvalidArguments TextBlock and issues no backend call.
C2_InvalidArgumentsRejected ==
    (pc # "idle" /\ name \in SupportedTools /\ ~QueryIsNonEmptyString(arguments)) =>
        /\ pc = "done"
        /\ OneTextBlock(response)
        /\ response.content[1].text \in {INVALID_ARGS_TEXT, IMAGE_INVALID_ARGS_TEXT}
        /\ NoBackendCall

\* C3: for image_search with a query, every integer `limit` reaches the image
\* adapter as clamp(limit, 1, 20), an absent limit as 5, and an out-of-range
\* limit is never answered with an error instead of the backend call.
C3_LimitClamped ==
    (/\ pc # "idle"
     /\ name = "image_search"
     /\ IsDict(arguments) /\ HasKey(arguments, "query")
     /\ (HasKey(arguments, "limit") => arguments.d["limit"].t = "int")) =>
        /\ sent.backend = "searxng"
        /\ calls.searxng = 1
        /\ sent.limit = IF ~HasKey(arguments, "limit") THEN 5
                        ELSE LET n == arguments.d["limit"].n
                             IN IF n < 1 THEN 1 ELSE IF n > 20 THEN 20 ELSE n
        /\ sent.limit \in 1..20

C3_Witness ==
    /\ pc = "awaiting_searxng"
    /\ HasKey(arguments, "limit")
    /\ arguments.d["limit"].t = "int"
    /\ arguments.d["limit"].n < 1
    /\ sent.limit = 1

\* The outcomes of an invocation that are failures: the tool or its arguments were
\* refused, or the backend raised, timed out or answered with an error status.
FailureOutcome ==
    \/ name \notin SupportedTools
    \/ sent = NoRequest
    \/ outcome.kind \in {"exception", "client_error", "timeout"}
    \/ (outcome.kind = "response" /\ outcome.status # 200)

\* C4: for every tool name, arguments and backend outcome, call_tool never raises
\* and returns a non-empty sequence of content blocks; on every failure outcome
\* the sequence is exactly one TextBlock.
C4_NeverRaises ==
    pc = "done" =>
        /\ ~response.raised
        /\ Len(response.content) >= 1
        /\ \A k \in DOMAIN response.content : response.content[k].type \in {"text", "image"}
        /\ FailureOutcome => OneTextBlock(response)

C4_Witness ==
    /\ pc = "done"
    /\ name = "search"
    /\ outcome.kind = "exception"
    /\ outcome.msg = <<"boom">>
    /\ OneTextBlock(response)

\* C5 as stated: for both tools a backend call that exceeds the 30-second deadline
\* yields exactly one TextBlock carrying the text-search timeout message, and no
\* timeout exception reaches the caller.
C5_SameTimeoutMessage ==
    (pc = "done" /\ outcome.kind = "timeout") =>
        /\ OneTextBlock(response)
        /\ response.content[1].text = TIMEOUT_TEXT

\* C5 amended: a backend call that exceeds the 30-second deadline yields exactly
\* one TextBlock and no exception reaches the caller; search answers with the
\* fixed timeout message, image_search with "Error in image search: Request timed
\* out".
C5_TimeoutPerTool ==
    (pc = "done" /\ outcome.kind = "timeout") =>
        /\ outcome.after = 30
        /\ OneTextBlock(response)
        /\ name = "search" =>
             response.content[1].text =
               <<"The search operation timed out. Please try again with a more specific query or check your internet connection.">>
        /\ name = "image_search" =>
             response.content[1].text = <<"Error in image search: ", "Request timed out">>

C5_Witness ==
    /\ pc = "done"
    /\ name = "image_search"
    /\ outcome.kind = "timeout"
    /\ outcome.after = TIMEOUT
    /\ OneTextBlock(response)
    /\ response.content[1].text # TIMEOUT_TEXT

\* Case-insensitive substring test on a failure message.
Mentions(msg, needle) == Contains(LowerMsg(msg), needle)

BackendFailed == outcome.kind \in {"exception", "client_error", "timeout"}
FailureMessage == IF outcome.kind \in {"exception", "client_error"} THEN outcome.msg ELSE <<>>

\* The category the specification's classifier assigns to a backend failure.
SpecCategory ==
    IF Mentions(FailureMessage, "api_key") \/ Mentions(FailureMessage, "auth")
    THEN "AuthFailure"
    ELSE IF Mentions(FailureMessage, "rate limit") THEN "RateLimited"
    ELSE IF outcome.kind = "timeout" THEN "Timeout"
    ELSE IF Mentions(FailureMessage, "connection") \/ outcome.kind = "client_error"
    THEN "BackendUnreachable"
    ELSE "Unexpected"

\* C6 as stated: for every backend failure of either tool the message follows the
\* priority order api_key/auth, rate limit, timeout, connection/network, otherwise
\* the Unexpected sentence with the raw failure message embedded.
C6_SpecClassification ==
    (pc = "done" /\ BackendFailed) =>
        /\ OneTextBlock(response)
        /\ LET text == response.content[1].text
           IN CASE SpecCategory = "AuthFailure" -> text = AUTH_TEXT
                [] SpecCategory = "RateLimited" -> text = RATE_LIMIT_TEXT
                [] SpecCategory = "Timeout" -> text = TIMEOUT_TEXT
                [] SpecCategory = "BackendUnreachable" ->
                      /\ Len(text) = 1
                      /\ text \notin {AUTH_TEXT, RATE_LIMIT_TEXT, TIMEOUT_TEXT}
                [] SpecCategory = "Unexpected" ->
                      text \in {<<UNEXPECTED_PREFIX>> \o FailureMessage,
                                <<IMAGE_UNEXPECTED_PREFIX>> \o FailureMessage}

\* C6 amended: a failure raised by the text backend is classified by a
\* case-insensitive substring match on its message, first match wins: "api_key"
\* gives the AuthFailure sentence, "rate limit" the RateLimited sentence, anything
\* else ("auth" and "connection" included) the Unexpected sentence with the raw
\* message embedded; a timeout gives the Timeout sentence.  A failure of the image
\* backend is not classified: the single TextBlock reads "Error in image search: "
\* followed by "Connection error: <message>" for a network-layer failure, "Request
\* timed out" for a timeout, "SearXNG API returned status code <n>" for a status
\* other than 200 and "Error during search: <message>" for any other exception.
C6_CodeClassification ==
    (pc = "done" /\ (BackendFailed \/ (outcome.kind = "response" /\ outcome.status # 200))) =>
        /\ OneTextBlock(response)
        /\ LET text == response.content[1].text
               msg == FailureMessage
           IN /\ (name = "search" /\ outcome.kind = "timeout") => text = TIMEOUT_TEXT
              /\ (name = "search" /\ outcome.kind = "exception") =>
                    text = IF Mentions(msg, "api_key") THEN AUTH_TEXT
                           ELSE IF Mentions(msg, "rate limit") THEN RATE_LIMIT_TEXT
                           ELSE <<UNEXPECTED_PREFIX>> \o msg
              /\ name = "image_search" =>
                    text = <<"Error in image search: ">> \o
                           (CASE outcome.kind = "client_error" -> <<"Connection error: ">> \o msg
                              [] outcome.kind = "timeout" -> <<"Request timed out">>
                              [] outcome.kind = "exception" -> <<"Error during search: ">> \o msg
                              [] outcome.kind = "response" ->
                                   <<"SearXNG API returned status code ", ToString(outcome.status)>>)

C6_Witness ==
    /\ pc = "done"
    /\ name = "search"
    /\ outcome.kind = "exception"
    /\ outcome.msg = <<"Rate Limit exceeded", "Invalid API_KEY">>
    /\ response.content[1].text = AUTH_TEXT

\* C7 as stated: whenever a backend failure message contains "rate limit" in any
\* letter case, the response is the single fixed RateLimited TextBlock, whatever
\* else the message contains.
C7_RateLimitAlways ==
    (pc = "done" /\ outcome.kind \in {"exception", "client_error"}
       /\ Mentions(outcome.msg, "rate limit")) =>
        /\ OneTextBlock(response)
        /\ response.content[1].text = RATE_LIMIT_TEXT

\* C7 amended: whenever a failure message of the text backend contains "rate
\* limit" in any letter case and does not contain "api_key" (in any letter case),
\* the response is the single fixed RateLimited TextBlock, whatever else ("auth",
\* "connection") the message contains; with "api_key" present the AuthFailure
\* sentence is returned, and image_search never returns the RateLimited sentence.
C7_RateLimitUnlessApiKey ==
    (pc = "done" /\ outcome.kind \in {"exception", "client_error"}
       /\ Mentions(outcome.msg, "rate limit")) =>
        /\ OneTextBlock(response)
        /\ (name = "search" /\ ~Mentions(outcome.msg, "api_key")) =>
              response.content[1].text =
                <<"Rate limit exceeded. Please wait a moment before trying again.">>
        /\ (name = "search" /\ Mentions(outcome.msg, "api_key")) =>
              response.content[1].text = AUTH_TEXT
        /\ name = "image_search" => response.content[1].text # RATE_LIMIT_TEXT

C7_Witness ==
    /\ pc = "done"
    /\ name = "search"
    /\ outcome.kind = "exception"
    /\ outcome.msg = <<"Connection refused", "Rate Limit exceeded">>
    /\ response.content[1].text = RATE_LIMIT_TEXT

\* A text backend result with neither a non-empty answer nor any result entry.
HasAnswer(r) == IsDict(r) /\ HasKey(r, "answer") /\ Truthy(r.d["answer"])
EntriesOf(r) == IF IsDict(r) /\ HasKey(r, "results") THEN r.d["results"].l ELSE <<>>
NothingFound(r) == ~HasAnswer(r) /\ EntriesOf(r) = <<>>

\* C8 as stated: text normalization returns one and the same fixed "no results"
\* text for every result that is absent or empty or has neither a non-empty answer
\* nor any results entries, and never fails on such input.
C8_OneNoResultsText ==
    (pc = "done" /\ outcome.kind = "result" /\ NothingFound(outcome.results)) =>
        /\ OneTextBlock(response)
        /\ response.content[1].text = NO_RESULTS_TEXT

\* C8 amended: text normalization never fails on a result that is absent or empty
\* or has neither a non-empty answer nor any results entries, and returns one
\* fixed TextBlock: "No results were found for your query. ..." for an absent or
\* empty result (None, {}), and "The search was completed but no relevant
\* information was found. ..." for a non-empty result without answer and entries.
C8_TwoNoResultsTexts ==
    (pc = "done" /\ outcome.kind = "result" /\ NothingFound(outcome.results)) =>
        /\ OneTextBlock(response)
        /\ response.content[1].text =
             IF outcome.results \in {PyNone, PyDict(<<>>)}
             THEN <<"No results were found for your query. Please try a different search term.">>
             ELSE <<"The search was completed but no relevant information was found. Please try refining your query.">>

C8_Witness ==
    /\ pc = "done"
    /\ outcome.kind = "result"
    /\ outcome.results = PyDict([answer |-> PyStr(""), results |-> PyList(<<>>)])
    /\ response.content[1].text = NO_RELEVANT_TEXT

\* The k-th line of a text built by "\n".join(...), and the number of its lines.
LineOf(text, k) == text[2 * k - 1]
LineCount(text) == (Len(text) + 1) \div 2
FieldOr(entry, key, placeholder) ==
    IF key \in DOMAIN entry.d THEN Fmt(entry.d[key]) ELSE placeholder

\* C9: for every text backend result with a non-empty answer or at least one
\* result entry, process_search_results yields exactly one TextBlock; the "AI
\* Answer" section appears iff the answer is present and non-empty and comes
\* before the "Search Results" section; the k-th listed entry, numbered k from 1,
\* is the k-th entry of the backend's results, none dropped, duplicated or
\* reordered, with placeholders for a missing title, url or snippet.
C9_TextLayout ==
    (/\ pc = "done"
     /\ outcome.kind = "result"
     /\ ~NothingFound(outcome.results)
     /\ HasAnswer(outcome.results) => outcome.results.d["answer"].t = "str"
     /\ \A k \in DOMAIN EntriesOf(outcome.results) : IsDict(EntriesOf(outcome.results)[k])) =>
        /\ OneTextBlock(response)
        /\ LET r == outcome.results
               text == response.content[1].text
               entries == EntriesOf(r)
               base == IF HasAnswer(r) THEN 3 ELSE 0
               first == base + 1
           IN /\ \A i \in 1..(LineCount(text) - 1) : text[2 * i] = "\n"
              /\ HasAnswer(r) <=> \E k \in 1..LineCount(text) : LineOf(text, k) = "AI Answer:"
              /\ HasAnswer(r) => /\ LineOf(text, 1) = "AI Answer:"
                                 /\ LineOf(text, 2) = r.d["answer"].s
              /\ entries # <<>> <=>
                    \E k \in 1..LineCount(text) : LineOf(text, k) = "\nSearch Results:"
              /\ entries # <<>> => LineOf(text, first) = "\nSearch Results:"
              /\ LineCount(text) = base + (IF entries = <<>> THEN 0 ELSE 1 + 3 * Len(entries))
              /\ \A k \in DOMAIN entries :
                    /\ LineOf(text, first + 3 * k - 2) =
                         "\n" \o ToString(k) \o ". " \o FieldOr(entries[k], "title", "Title not found")
                    /\ LineOf(text, first + 3 * k - 1) =
                         "URL: " \o FieldOr(entries[k], "url", "URL not found")
                    /\ LineOf(text, first + 3 * k) =
                         "Summary: " \o FieldOr(entries[k], "snippet", "Summary not found") \o "\n"

C9_Witness ==
    /\ pc = "done"
    /\ outcome.kind = "result"
    /\ outcome.results =
         PyDict([answer |-> PyStr("42"),
                 results |-> PyList(<< PyDict([title |-> PyStr("T"), url |-> PyStr("U"),
                                               snippet |-> PyStr("S")]),
                                       PyDict(<<>>) >>)])
    /\ LineOf(response.content[1].text, 5) = "\n1. T"
    /\ LineOf(response.content[1].text, 8) = "\n2. Title not found"

\* The records of a successful image response the adapter keeps: the first
\* `limit` of the backend's.
KeptItems == LET l == outcome.data.d["results"].l
             IN [k \in 1..(IF sent.limit < Len(l) THEN sent.limit ELSE Len(l)) |-> l[k]]
HasImgSrc(item) == "img_src" \in DOMAIN item.d /\ item.d["img_src"] # PyStr("")
\* The indexes of the kept records that carry an image.
WithImage == {k \in DOMAIN KeptItems : HasImgSrc(KeptItems[k])}

CoercesToInt(v) == v.t = "int" \/ (v.t = "str" /\ v.s = "7")
PassesValidation ==
    /\ name \in SupportedTools
    /\ IsDict(arguments)
    /\ HasKey(arguments, "query")
    /\ (name = "image_search" /\ HasKey(arguments, "limit")) =>
          CoercesToInt(arguments.d["limit"])
BackendAttempts == calls.tavily + calls.searxng

\* C11: in every tool invocation the backend operation is attempted at most once,
\* and exactly once when the tool name and arguments pass validation; after a
\* backend failure or a timeout the error response is returned without a second
\* backend call, and the response is produced only after that single attempt has
\* completed, failed or timed out.
C11_SingleAttempt ==
    /\ BackendAttempts <= 1
    /\ calls.tavily = 1 => name = "search"
    /\ calls.searxng = 1 => name = "image_search"
    /\ pc # "idle" => (BackendAttempts = 1 <=> PassesValidation)
    /\ pc \in {"awaiting_tavily", "awaiting_searxng"} =>
          /\ BackendAttempts = 1
          /\ outcome.kind = "none"
          /\ response = NoResponse
    /\ response # NoResponse => pc = "done"
    /\ (pc = "done" /\ BackendAttempts = 1) =>
          /\ outcome.kind \in {"result", "response", "exception", "client_error", "timeout"}
          /\ Len(response.content) >= 1
    /\ (pc = "done" /\ BackendAttempts = 0) => outcome.kind = "none"

C11_Witness ==
    /\ pc = "done"
    /\ name = "search"
    /\ outcome.kind = "timeout"
    /\ calls.tavily = 1
    /\ response.content = <<TextContent(TIMEOUT_TEXT)>>

====
